---------------------------- MODULE Spec2Model ----------------------------
(***************************************************************************)
(* Model of src/main.py: sort_file (line reconstruction from word boxes),  *)
(* extract_patient_name (marker based name extraction), format_json (the   *)
(* loader) and main (the driver).                                          *)
(*                                                                         *)
(* Text.  A Python str is a sequence of one-character strings, so that     *)
(* `in`, str.split, str.strip and str.isupper are computed character by    *)
(* character.                                                              *)
(*                                                                         *)
(* Numbers.  A coordinate is an exact number on a grid whose unit is       *)
(* 0.0025 page widths; the integer n stands for n * 0.0025.  Box           *)
(* coordinates are even (multiples of 0.005), so (a + b) / 2 is exact, and *)
(* the default y_tol of 0.005 is 2.  Floating point rounding error of the  *)
(* division y_avg / y_tol is not modelled.                                 *)
(***************************************************************************)
EXTENDS Integers, Sequences, FiniteSets, TLC

VARIABLES
    lines_text,     \* extract_patient_name: argument lines_text
    markers,        \* extract_patient_name: argument markers
    name_result,    \* extract_patient_name: outcome of the call
    words,          \* sort_file: the caller's list of word dicts (mutated in place)
    y_tol,          \* sort_file: argument y_tol
    sort_result,    \* sort_file: outcome of the latest call
    passed_words,   \* the word dicts as they were when first passed to sort_file
    first_lines,    \* the lines the first returning call of sort_file gave
    calls,          \* number of sort_file calls made on `words`
    doc,            \* main: what open(JSON_PATH) / json.load find on disk
    output          \* main: how the run of main ended

vars == <<lines_text, markers, name_result, words, y_tol, sort_result,
          passed_words, first_lines, calls, doc, output>>

extract_vars == <<lines_text, markers, name_result>>
sort_vars == <<words, y_tol, sort_result, passed_words, first_lines, calls>>
main_vars == <<doc, output>>

(***************************************************************************)
(* Bounds of the model.                                                    *)
(***************************************************************************)
MaxLineLen == 5      \* characters in the line of a one-line input
MaxPairLen == 4      \* characters in each line of a two-line input
MaxWords == 2        \* word boxes passed to sort_file
MaxCoord == 1        \* box coordinates range over 0, 0.005 .. MaxCoord * 0.005
MaxYTol == 2         \* y_tol ranges over 0.0025 .. MaxYTol * 0.0025
MaxCalls == 2        \* calls of sort_file on the same word list
MaxBadWords == 2     \* word records in a list that holds malformed records
MaxDocWords == 3     \* words on the first page of the document main reads

(***************************************************************************)
(* Python str operations.                                                  *)
(***************************************************************************)
\* Characters c with c.isupper(), among the characters the model uses.
UpperChars == {"A", "D", "J", "M"}

\* Characters c with c.isspace(), among the characters the model uses.
Whitespace == {" "}

\* Python's None.  No str equals it: a str is a sequence of characters.
None == <<"<None>">>

\* s[i:i+len(sep)] == sep, for a 1-based i.
StartsWithAt(s, sep, i) ==
    /\ i + Len(sep) - 1 <= Len(s)
    /\ \A k \in 1..Len(sep) : s[i + k - 1] = sep[k]

\* `sep in s`: the empty string is in every string.
Contains(s, sep) == \E i \in 1..(Len(s) + 1) : StartsWithAt(s, sep, i)

\* s.split(sep) for a non-empty sep: the parts between the non-overlapping
\* occurrences of sep, found left to right.  `start` is where the current
\* part begins and i the position examined.
RECURSIVE SplitFrom(_, _, _, _)
SplitFrom(s, sep, start, i) ==
    IF i + Len(sep) - 1 > Len(s)
    THEN <<SubSeq(s, start, Len(s))>>
    ELSE IF StartsWithAt(s, sep, i)
         THEN <<SubSeq(s, start, i - 1)>>
              \o SplitFrom(s, sep, i + Len(sep), i + Len(sep))
         ELSE SplitFrom(s, sep, start, i + 1)

Split(s, sep) == SplitFrom(s, sep, 1, 1)

\* s.strip(): leading and trailing whitespace removed.
RECURSIVE LStrip(_)
LStrip(s) ==
    IF s # <<>> /\ Head(s) \in Whitespace THEN LStrip(Tail(s)) ELSE s

RECURSIVE RStrip(_)
RStrip(s) ==
    IF s # <<>> /\ s[Len(s)] \in Whitespace
    THEN RStrip(SubSeq(s, 1, Len(s) - 1))
    ELSE s

Strip(s) == RStrip(LStrip(s))

\* s.split() with no separator: the maximal runs of non-whitespace.
RECURSIVE TokensFrom(_, _, _)
TokensFrom(s, i, cur) ==
    IF i > Len(s)
    THEN (IF cur = <<>> THEN <<>> ELSE <<cur>>)
    ELSE IF s[i] \in Whitespace
         THEN (IF cur = <<>> THEN <<>> ELSE <<cur>>) \o TokensFrom(s, i + 1, <<>>)
         ELSE TokensFrom(s, i + 1, Append(cur, s[i]))

WhitespaceSplit(s) == TokensFrom(s, 1, <<>>)

\* " ".join(texts)
RECURSIVE JoinWithSpace(_)
JoinWithSpace(texts) ==
    IF texts = <<>> THEN <<>>
    ELSE IF Len(texts) = 1 THEN texts[1]
    ELSE texts[1] \o <<" ">> \o JoinWithSpace(Tail(texts))

(***************************************************************************)
(* extract_patient_name                                                    *)
(***************************************************************************)
\* Outcomes of a call: a returned pair, or a raised exception.
Pending == [kind |-> "pending", first |-> None, last |-> None, exc |-> "none"]
Returned(a, b) == [kind |-> "return", first |-> a, last |-> b, exc |-> "none"]
Raised(e) == [kind |-> "raise", first |-> None, last |-> None, exc |-> e]
Continue == [kind |-> "continue", first |-> None, last |-> None, exc |-> "none"]

\* `word and word[0].isupper()`
IsCapitalized(word) == word # <<>> /\ word[1] \in UpperChars

\* after_marker = parts[1].strip().split(), for parts = line.split(marker)
AfterMarker(line, marker) == WhitespaceSplit(Strip(Split(line, marker)[2]))

\* candidate_names: the capitalized tokens of after_marker
CandidateNames(after_marker) == SelectSeq(after_marker, IsCapitalized)

\* The body of the inner loop without its `if marker in line` test: on a
\* line that does not hold the marker, parts[1] raises IndexError.
LineMarkerStepUnguarded(line, marker) ==
    IF marker = <<>> THEN Raised("ValueError")
    ELSE IF Len(Split(line, marker)) < 2 THEN Raised("IndexError")
    ELSE LET candidate_names == CandidateNames(AfterMarker(line, marker))
         IN IF Len(candidate_names) >= 2
            THEN Returned(candidate_names[1], candidate_names[2])
            ELSE Continue

\* The body of the inner loop for one line and one marker.  line.split("")
\* raises ValueError("empty separator"); len(parts) > 1 holds whenever the
\* marker is in the line.
LineMarkerStep(line, marker) ==
    IF ~Contains(line, marker) THEN Continue
    ELSE IF marker = <<>> THEN Raised("ValueError")
    ELSE LET parts == Split(line, marker)
         IN IF Len(parts) > 1
            THEN LET candidate_names == CandidateNames(AfterMarker(line, marker))
                 IN IF Len(candidate_names) >= 2
                    THEN Returned(candidate_names[1], candidate_names[2])
                    ELSE Continue
            ELSE Continue

\* The two loops, from line li and marker mi on: lines outside, markers inside.
RECURSIVE ScanFrom(_, _, _, _)
ScanFrom(lines, mks, li, mi) ==
    IF li > Len(lines) THEN Returned(None, None)
    ELSE IF mi > Len(mks) THEN ScanFrom(lines, mks, li + 1, 1)
    ELSE LET r == LineMarkerStep(lines[li], mks[mi])
         IN IF r.kind = "continue" THEN ScanFrom(lines, mks, li, mi + 1) ELSE r

\* The loops the other way round: markers outside, lines inside.
RECURSIVE ScanMarkersOuter(_, _, _, _)
ScanMarkersOuter(lines, mks, li, mi) ==
    IF mi > Len(mks) THEN Returned(None, None)
    ELSE IF li > Len(lines) THEN ScanMarkersOuter(lines, mks, 1, mi + 1)
    ELSE LET r == LineMarkerStep(lines[li], mks[mi])
         IN IF r.kind = "continue" THEN ScanMarkersOuter(lines, mks, li + 1, mi) ELSE r

ExtractMarkersOuter(lines, mks) == ScanMarkersOuter(lines, mks, 1, 1)

ExtractPatientName(lines, mks) == ScanFrom(lines, mks, 1, 1)

\* markers: List[str] = ["Monsieur", "Madame"]
Monsieur == <<"M", "o", "n", "s", "i", "e", "u", "r">>
Madame == <<"M", "a", "d", "a", "m", "e">>
DEFAULT_MARKERS == <<Monsieur, Madame>>

(***************************************************************************)
(* Python dict operations.  A dict with str keys is a function whose       *)
(* domain is the set of keys present.                                      *)
(***************************************************************************)
\* d[k] = v
SetItem(d, k, v) == [x \in (DOMAIN d) \cup {k} |-> IF x = k THEN v ELSE d[x]]

\* d without the key k (a record in which the field is missing)
WithoutKey(d, k) == [x \in (DOMAIN d) \ {k} |-> d[x]]

Box(x_min, x_max, y_min, y_max) ==
    [x_min |-> x_min, x_max |-> x_max, y_min |-> y_min, y_max |-> y_max]

Word(text, bbox) == [text |-> text, bbox |-> bbox]

(***************************************************************************)
(* sort_file                                                               *)
(***************************************************************************)
\* y_tol: float = 0.005, in grid units of 0.0025
Y_TOL_DEFAULT == 2

\* (a + b) / 2 for grid coordinates a, b (even numbers of units)
Average(a, b) == (a + b) \div 2

\* round(n / d) for d > 0: Python rounds a half to the even neighbour.
RoundHalfEven(n, d) ==
    LET q == n \div d
        r == n % d
    IN IF 2 * r < d THEN q
       ELSE IF 2 * r > d THEN q + 1
       ELSE IF q % 2 = 0 THEN q ELSE q + 1

\* round(n / d) with a half rounded up instead.
RoundHalfUp(n, d) == (2 * n + d) \div (2 * d)

\* key = round(word['y_avg'] / y_tol)
BucketKey(y_avg, tol) == RoundHalfEven(y_avg, tol)

\* Outcome of the first loop on one word: the word with y_avg and x_avg
\* attached, or the KeyError of the first subscript that fails.  y_avg is
\* assigned before the x coordinates are read.
AttachOne(word) ==
    IF "bbox" \notin DOMAIN word THEN [exc |-> "KeyError", key |-> "bbox", word |-> word]
    ELSE IF "y_min" \notin DOMAIN word.bbox
    THEN [exc |-> "KeyError", key |-> "y_min", word |-> word]
    ELSE IF "y_max" \notin DOMAIN word.bbox
    THEN [exc |-> "KeyError", key |-> "y_max", word |-> word]
    ELSE LET w1 == SetItem(word, "y_avg", Average(word.bbox.y_min, word.bbox.y_max))
         IN IF "x_min" \notin DOMAIN word.bbox
            THEN [exc |-> "KeyError", key |-> "x_min", word |-> w1]
            ELSE IF "x_max" \notin DOMAIN word.bbox
            THEN [exc |-> "KeyError", key |-> "x_max", word |-> w1]
            ELSE [exc |-> "none", key |-> "none",
                  word |-> SetItem(w1, "x_avg", Average(word.bbox.x_min, word.bbox.x_max))]

\* The first loop from word i on: stops at the first KeyError, leaving the
\* words already visited with their attributes attached.  `at` is the loop's
\* position when it stopped; the KeyError itself carries the key only.
RECURSIVE AttachFrom(_, _)
AttachFrom(ws, i) ==
    IF i > Len(ws) THEN [exc |-> "none", key |-> "none", at |-> 0, words |-> ws]
    ELSE LET a == AttachOne(ws[i])
             ws1 == [ws EXCEPT ![i] = a.word]
         IN IF a.exc # "none"
            THEN [exc |-> a.exc, key |-> a.key, at |-> i, words |-> ws1]
            ELSE AttachFrom(ws1, i + 1)

\* A first loop that skips a record it cannot read instead of failing.
RECURSIVE AttachSkipping(_, _)
AttachSkipping(ws, i) ==
    IF i > Len(ws) THEN [exc |-> "none", key |-> "none", at |-> 0, words |-> ws]
    ELSE LET a == AttachOne(ws[i])
         IN IF a.exc # "none"
            THEN AttachSkipping([ws EXCEPT ![i] =
                                    SetItem(SetItem(a.word, "y_avg", 0), "x_avg", 0)],
                                i + 1)
            ELSE AttachSkipping([ws EXCEPT ![i] = a.word], i + 1)

AttachAveragesSkipping(ws) == AttachSkipping(ws, 1)

\* A first loop that writes the centre over the box's own minimum fields.
AttachAveragesClobbering(ws) ==
    [exc |-> "none", key |-> "none", at |-> 0,
     words |-> [i \in 1..Len(ws) |->
        LET a == AttachOne(ws[i]).word
        IN [a EXCEPT !.bbox = [a.bbox EXCEPT !.y_min = a.y_avg, !.x_min = a.x_avg]]]]

AttachAverages(ws) == AttachFrom(ws, 1)

\* setdefault that starts a fresh list every time: a later word of a bucket
\* replaces the earlier ones.
AddToBucketReplacing(buckets, key, i) ==
    IF \E b \in 1..Len(buckets) : buckets[b].key = key
    THEN [b \in 1..Len(buckets) |->
            IF buckets[b].key = key
            THEN [buckets[b] EXCEPT !.items = <<i>>]
            ELSE buckets[b]]
    ELSE Append(buckets, [key |-> key, items |-> <<i>>])

\* buckets.setdefault(key, []).append(word): buckets is the dict in insertion
\* order, a sequence of [key, items]; items holds the positions in `words` of
\* the word dicts (the lists hold references to the caller's dicts).
AddToBucket(buckets, key, i) ==
    IF \E b \in 1..Len(buckets) : buckets[b].key = key
    THEN [b \in 1..Len(buckets) |->
            IF buckets[b].key = key
            THEN [buckets[b] EXCEPT !.items = Append(@, i)]
            ELSE buckets[b]]
    ELSE Append(buckets, [key |-> key, items |-> <<i>>])

\* The second loop from word i on.
RECURSIVE FillBuckets(_, _, _, _)
FillBuckets(ws, tol, i, buckets) ==
    IF i > Len(ws) THEN buckets
    ELSE FillBuckets(ws, tol, i + 1,
                     AddToBucket(buckets, BucketKey(ws[i].y_avg, tol), i))

\* the keys in descending order
RECURSIVE SortedKeysDescending(_)
SortedKeysDescending(keys) ==
    IF keys = {} THEN <<>>
    ELSE LET m == CHOOSE k \in keys : \A j \in keys : k >= j
         IN <<m>> \o SortedKeysDescending(keys \ {m})

\* sorted(keys): ascending
RECURSIVE SortedKeys(_)
SortedKeys(keys) ==
    IF keys = {} THEN <<>>
    ELSE LET m == CHOOSE k \in keys : \A j \in keys : k <= j
         IN <<m>> \o SortedKeys(keys \ {m})

\* Insert word i before the items whose x_avg is equal: ties come out reversed.
RECURSIVE InsertBeforeTies(_, _, _)
InsertBeforeTies(ws, line, i) ==
    IF line = <<>> THEN <<i>>
    ELSE IF ws[i].x_avg <= ws[Head(line)].x_avg THEN <<i>> \o line
    ELSE <<Head(line)>> \o InsertBeforeTies(ws, Tail(line), i)

\* Insert word i into a line sorted by x_avg, after every item whose x_avg is
\* not greater: equal keys keep their order.
RECURSIVE InsertStable(_, _, _)
InsertStable(ws, line, i) ==
    IF line = <<>> THEN <<i>>
    ELSE IF ws[i].x_avg < ws[Head(line)].x_avg THEN <<i>> \o line
    ELSE <<Head(line)>> \o InsertStable(ws, Tail(line), i)

\* sorted(items, key=lambda w: w['x_avg']): a stable sort
RECURSIVE SortByXFrom(_, _, _, _)
SortByXFrom(ws, items, k, acc) ==
    IF k > Len(items) THEN acc
    ELSE SortByXFrom(ws, items, k + 1, InsertStable(ws, acc, items[k]))

SortedByX(ws, items) == SortByXFrom(ws, items, 1, <<>>)

\* The third loop: one line per bucket, in ascending order of key.
SortedLines(ws, buckets) ==
    LET keys == SortedKeys({buckets[b].key : b \in 1..Len(buckets)})
        BucketOf(k) == CHOOSE b \in 1..Len(buckets) : buckets[b].key = k
    IN [n \in 1..Len(keys) |-> SortedByX(ws, buckets[BucketOf(keys[n])].items)]

NoLines == <<>>

SortPending == [kind |-> "pending", exc |-> "none", key |-> "none",
                lines |-> NoLines]

\* sort_file(words, y_tol): the outcome, and the caller's list as the call
\* leaves it.
SortFile(ws, tol) ==
    LET a == AttachAverages(ws)
    IN IF a.exc # "none"
       THEN [kind |-> "raise", exc |-> a.exc, key |-> a.key,
             lines |-> NoLines, words |-> a.words]
       ELSE [kind |-> "return", exc |-> "none", key |-> "none",
             lines |-> SortedLines(a.words, FillBuckets(a.words, tol, 1, <<>>)),
             words |-> a.words]

(***************************************************************************)
(* format_json and main                                                    *)
(***************************************************************************)
\* A dict without keys.
EmptyDict == [x \in {} |-> 0]

\* What main finds at JSON_PATH: no file, a file that is not JSON, a JSON
\* array, or a JSON object (data).
NoFile == [kind |-> "no_file", data |-> EmptyDict]
NotJson == [kind |-> "not_json", data |-> EmptyDict]
JsonArray == [kind |-> "json_array", data |-> EmptyDict]
JsonObject(data) == [kind |-> "json_object", data |-> data]

FormatReturned(lines) == [kind |-> "return", exc |-> "none", lines_text |-> lines]
FormatRaised(e) == [kind |-> "raise", exc |-> e, lines_text |-> <<>>]

\* The join loop: " ".join(word["text"] for word in line) for every line;
\* word["text"] raises KeyError on a record without text.
JoinLines(ws, lines) ==
    IF \E n \in 1..Len(lines) : \E k \in 1..Len(lines[n]) :
           "text" \notin DOMAIN ws[lines[n][k]]
    THEN FormatRaised("KeyError")
    ELSE FormatReturned(
            [n \in 1..Len(lines) |->
                JoinWithSpace([k \in 1..Len(lines[n]) |-> ws[lines[n][k]].text])])

\* format_json(json_path).  open raises FileNotFoundError, json.load raises
\* JSONDecodeError, a list has no .get (AttributeError).
FormatJson(d) ==
    IF d.kind = "no_file" THEN FormatRaised("FileNotFoundError")
    ELSE IF d.kind = "not_json" THEN FormatRaised("JSONDecodeError")
    ELSE IF d.kind = "json_array" THEN FormatRaised("AttributeError")
    ELSE LET pages == IF "pages" \in DOMAIN d.data THEN d.data.pages ELSE <<>>
         IN IF pages = <<>> THEN FormatRaised("ValueError")
            ELSE LET page == pages[1]
                     page_words == IF "words" \in DOMAIN page THEN page.words ELSE <<>>
                 IN IF page_words = <<>> THEN FormatReturned(<<>>)
                    ELSE LET r == SortFile(page_words, Y_TOL_DEFAULT)
                         IN IF r.kind = "raise" THEN FormatRaised(r.exc)
                            ELSE JoinLines(r.words, r.lines)

\* except (IOError, ValueError): the exception classes that are subclasses
\* of OSError or of ValueError.
CaughtByMain == {"FileNotFoundError", "OSError", "JSONDecodeError", "ValueError"}

OutPending == [kind |-> "pending", first |-> None, last |-> None, exc |-> "none"]
PrintedName(a, b) == [kind |-> "printed_name", first |-> a, last |-> b, exc |-> "none"]
PrintedNotFound == [kind |-> "printed_not_found", first |-> None, last |-> None,
                    exc |-> "none"]
PrintedError(e) == [kind |-> "printed_error", first |-> None, last |-> None, exc |-> e]
Uncaught(e) == [kind |-> "uncaught", first |-> None, last |-> None, exc |-> e]

\* `if first_name and last_name`: None and "" are false.
Truthy(v) == v # None /\ v # <<>>

\* main()
Main(d) ==
    LET f == FormatJson(d)
    IN IF f.kind = "raise"
       THEN (IF f.exc \in CaughtByMain THEN PrintedError(f.exc) ELSE Uncaught(f.exc))
       ELSE LET n == ExtractPatientName(f.lines_text, DEFAULT_MARKERS)
            IN IF n.kind = "raise" THEN Uncaught(n.exc)
               ELSE IF Truthy(n.first) /\ Truthy(n.last)
               THEN PrintedName(n.first, n.last)
               ELSE PrintedNotFound

(***************************************************************************)
(* Inputs                                                                  *)
(***************************************************************************)
\* The sequence with the elements of a function on 1..n.
AsSeq(f) == SubSeq(f, 1, Len(f))

\* Characters of the lines given to extract_patient_name: three upper case
\* letters, a lower case letter and the space; two-line inputs use two upper
\* case letters and the space.
RichAlphabet == {"M", "D", "A", "a", " "}
CoreAlphabet == {"M", "D", " "}

\* The marker strings of the inputs: two one-letter markers and the empty one.
MarkerM == <<"M">>
MarkerD == <<"D">>
MarkerChoices == {<<>>, MarkerM, MarkerD}

\* Marker lists of at most two different markers.
MarkerLists ==
    {<<>>} \cup {<<a>> : a \in MarkerChoices}
           \cup {p \in MarkerChoices \X MarkerChoices : p[1] # p[2]}

\* Word boxes on the grid with x_min <= x_max and y_min <= y_max.
Coords == {2 * k : k \in 0..MaxCoord}
WordBoxes ==
    {bx \in [x_min : Coords, x_max : Coords, y_min : Coords, y_max : Coords] :
        bx.x_min <= bx.x_max /\ bx.y_min <= bx.y_max}

SortText == <<"a">>
SortWords == {Word(SortText, bx) : bx \in WordBoxes}

\* Records of a list that may be malformed: a word on one of two lines,
\* whole, without its bbox, without one coordinate, or without its text.
BboxKeys == {"x_min", "x_max", "y_min", "y_max"}
WholeWords == {Word(SortText, Box(0, 2, 0, 2)), Word(SortText, Box(2, 4, 4, 6))}
MaybeMalformedWords ==
    WholeWords
    \cup {WithoutKey(w, "bbox") : w \in WholeWords}
    \cup {WithoutKey(w, "text") : w \in WholeWords}
    \cup {[w EXCEPT !.bbox = WithoutKey(w.bbox, k)] : w \in WholeWords, k \in BboxKeys}

\* Words of the document main reads: three texts in two columns and two rows.
Jean == <<"J", "e", "a", "n">>
Le == <<"l", "e">>
DocTexts == {Monsieur, Jean, Le}
DocBoxes == {Box(x, x + 2, y, y + 2) : x \in {0, 2}, y \in {0, 4}}
DocWords == {Word(t, bx) : t \in DocTexts, bx \in DocBoxes}

\* One record of a word list replaced by the record without the key k.
Damaged(ws, i, k) == [ws EXCEPT ![i] = WithoutKey(ws[i], k)]

\* Documents that are no JSON object, or an object without pages or words.
DocsWithoutWords ==
    {NoFile, NotJson, JsonArray, JsonObject(EmptyDict),
     JsonObject([pages |-> <<>>]), JsonObject([pages |-> <<EmptyDict>>])}

\* A JSON object whose first page holds the word records ws.
DocWithWords(ws) == JsonObject([pages |-> <<[words |-> ws]>>])

(***************************************************************************)
(* State machine                                                           *)
(***************************************************************************)
IdleExtract == lines_text = <<>> /\ markers = <<>> /\ name_result = Pending

IdleSort ==
    /\ words = <<>>
    /\ y_tol = Y_TOL_DEFAULT
    /\ sort_result = SortPending
    /\ passed_words = <<>>
    /\ first_lines = NoLines
    /\ calls = 0

IdleMain == doc = NoFile /\ output = OutPending

\* A caller about to call extract_patient_name(lines_text, markers): on no
\* line or one line over RichAlphabet with any marker list, or on two lines
\* over CoreAlphabet with the two one-letter markers in either order.
InitExtract ==
    /\ \/ /\ lines_text = <<>>
          /\ markers \in MarkerLists
       \/ /\ \E n \in 0..MaxLineLen : \E l \in [1..n -> RichAlphabet] :
                lines_text = <<AsSeq(l)>>
          /\ markers \in MarkerLists
       \/ /\ \E n1 \in 0..MaxPairLen : \E l1 \in [1..n1 -> CoreAlphabet] :
                \E n2 \in 0..MaxPairLen : \E l2 \in [1..n2 -> CoreAlphabet] :
                    lines_text = <<AsSeq(l1), AsSeq(l2)>>
          /\ markers \in {<<MarkerM, MarkerD>>, <<MarkerD, MarkerM>>}
    /\ name_result = Pending
    /\ IdleSort
    /\ IdleMain

\* A caller about to call sort_file(words, y_tol) on well-formed words.
InitSort ==
    /\ \E n \in 0..MaxWords : \E ws \in [1..n -> SortWords] : words = AsSeq(ws)
    /\ y_tol \in 1..MaxYTol
    /\ sort_result = SortPending
    /\ passed_words = words
    /\ first_lines = NoLines
    /\ calls = 0
    /\ IdleExtract
    /\ IdleMain

\* A caller about to call sort_file(words) on records that may be malformed.
InitMalformed ==
    /\ \E n \in 0..MaxBadWords : \E ws \in [1..n -> MaybeMalformedWords] :
          words = AsSeq(ws)
    /\ y_tol = Y_TOL_DEFAULT
    /\ sort_result = SortPending
    /\ passed_words = words
    /\ first_lines = NoLines
    /\ calls = 0
    /\ IdleExtract
    /\ IdleMain

\* The program about to run main() on the document at JSON_PATH: a document
\* without words, one with up to MaxDocWords word records, or one of those
\* with a record that lacks its text or its bbox.
InitMain ==
    /\ \/ doc \in DocsWithoutWords
       \/ \E n \in 0..MaxDocWords : \E ws \in [1..n -> DocWords] :
             doc = DocWithWords(AsSeq(ws))
       \/ \E n \in 1..MaxDocWords : \E ws \in [1..n -> DocWords] :
             \E i \in 1..n : \E k \in {"text", "bbox"} :
                 doc = DocWithWords(Damaged(AsSeq(ws), i, k))
    /\ output = OutPending
    /\ IdleExtract
    /\ IdleSort

\* extract_patient_name(lines_text, markers)
CallExtractPatientName ==
    /\ name_result.kind = "pending"
    /\ name_result' = ExtractPatientName(lines_text, markers)
    /\ UNCHANGED <<lines_text, markers>>
    /\ UNCHANGED sort_vars
    /\ UNCHANGED main_vars

\* sort_file(words, y_tol), on the list as the previous call left it
CallSortFile ==
    /\ calls < MaxCalls
    /\ LET r == SortFile(words, y_tol)
       IN /\ words' = r.words
          /\ sort_result' = [kind |-> r.kind, exc |-> r.exc, key |-> r.key,
                             lines |-> r.lines]
          /\ first_lines' = IF calls = 0 THEN r.lines ELSE first_lines
    /\ calls' = calls + 1
    /\ UNCHANGED <<y_tol, passed_words>>
    /\ UNCHANGED extract_vars
    /\ UNCHANGED main_vars

\* main()
RunMain ==
    /\ output.kind = "pending"
    /\ output' = Main(doc)
    /\ UNCHANGED doc
    /\ UNCHANGED extract_vars
    /\ UNCHANGED sort_vars

SpecExtract == InitExtract /\ [][CallExtractPatientName]_vars
SpecSort == InitSort /\ [][CallSortFile]_vars
SpecMalformed == InitMalformed /\ [][CallSortFile]_vars
SpecMain == InitMain /\ [][RunMain]_vars

(***************************************************************************)
(* Claims about extract_patient_name (checked under SpecExtract)           *)
(***************************************************************************)
ExtractCalled == name_result.kind # "pending"

NonEmptyMarkers == \A j \in 1..Len(markers) : markers[j] # <<>>

\* The (line, marker) combinations, and the order in which the claims say
\* they are scanned: by line first, then by marker.
Combos == (1..Len(lines_text)) \X (1..Len(markers))
ScannedBefore(p, q) == p[1] < q[1] \/ (p[1] = q[1] /\ p[2] < q[2])
Least(S) == CHOOSE p \in S : \A q \in S \ {p} : ScannedBefore(p, q)

\* Position of the first occurrence of a marker in a line that holds it.
FirstIndex(line, marker) ==
    CHOOSE i \in 1..(Len(line) + 1) :
        /\ StartsWithAt(line, marker, i)
        /\ \A j \in 1..(i - 1) : ~StartsWithAt(line, marker, j)

\* Everything that follows the first occurrence of the marker in the line.
AfterFirstOccurrence(line, marker) ==
    SubSeq(line, FirstIndex(line, marker) + Len(marker), Len(line))

Occurs(p) == Contains(lines_text[p[1]], markers[p[2]])

\* The combination p yields a name: the marker is in the line and the
\* segment the function inspects holds at least two capitalized tokens.
Yields(p) ==
    /\ markers[p[2]] # <<>>
    /\ Occurs(p)
    /\ Len(CandidateNames(AfterMarker(lines_text[p[1]], markers[p[2]]))) >= 2

PairOf(p) ==
    LET c == CandidateNames(AfterMarker(lines_text[p[1]], markers[p[2]]))
    IN Returned(c[1], c[2])

\* The marker of combination p is in the line, and nothing or only
\* whitespace follows its first occurrence.
OnlyWhitespaceFollows(p) ==
    /\ Occurs(p)
    /\ Strip(AfterFirstOccurrence(lines_text[p[1]], markers[p[2]])) = <<>>

\* C1: for the first (line, marker) combination whose marker occurs in the
\* line, the segment examined is everything after the FIRST occurrence of
\* the marker: when that whole segment holds at least two capitalized
\* tokens, the first two of them are returned.  (Stated for lists of
\* non-empty markers.)
C1_SegmentIsAllAfterFirstOccurrence ==
    (ExtractCalled /\ NonEmptyMarkers /\ \E p \in Combos : Occurs(p)) =>
        LET p == Least({q \in Combos : Occurs(q)})
            c == CandidateNames(WhitespaceSplit(
                    AfterFirstOccurrence(lines_text[p[1]], markers[p[2]])))
        IN Len(c) >= 2 => name_result = Returned(c[1], c[2])

\* C2: the scan runs over the lines, and for each line over the markers in
\* list order, and the first match wins: a returned pair is the pair of the
\* least (line index, marker index) combination that yields a name, whatever
\* the position of the markers in the text and whatever follows.
C2_FirstMatchInScanOrderWins ==
    (name_result.kind = "return" /\ \E p \in Combos : Yields(p)) =>
        name_result = PairOf(Least({q \in Combos : Yields(q)}))

\* C2 witness: one line holds both markers, each followed by a name, the
\* second marker of the list comes first in the text, and the pair returned
\* is the one of the first marker of the list.
C2_Witness_ListOrderBeatsTextOrder ==
    /\ name_result.kind = "return"
    /\ Len(markers) = 2
    /\ \E i \in 1..Len(lines_text) :
          /\ Yields(<<i, 1>>) /\ Yields(<<i, 2>>)
          /\ FirstIndex(lines_text[i], markers[2]) < FirstIndex(lines_text[i], markers[1])
          /\ PairOf(<<i, 1>>) # PairOf(<<i, 2>>)
          /\ \A q \in Combos : Yields(q) => q[1] >= i
          /\ name_result = PairOf(<<i, 1>>)

\* The outcome the claim C7 describes: a return, of (None, None) when no
\* combination yields a name and of a pair otherwise; and (None, None) when
\* every marker found is at the end of its line or followed by whitespace only.
AbsentOrPair ==
    /\ name_result.kind = "return"
    /\ (~ \E p \in Combos : Yields(p)) => name_result = Returned(None, None)
    /\ (\E p \in Combos : Yields(p)) =>
          (name_result.first # None /\ name_result.last # None)
    /\ (\A p \in Combos : Occurs(p) => OnlyWhitespaceFollows(p)) =>
          name_result = Returned(None, None)

\* C7 as claimed: for every sequence of lines and every marker list the call
\* never raises, returns (None, None) when nothing is found and a pair
\* otherwise.
C7_NeverRaisesForEveryMarkerList == ExtractCalled => AbsentOrPair

\* C7 as amended: for every sequence of lines and every list of non-empty
\* markers the call never raises, returns (None, None) when no combination
\* yields a name and a pair otherwise; a marker at the very end of a line or
\* followed only by whitespace is no match.
C7_NeverRaisesForNonEmptyMarkers ==
    (ExtractCalled /\ NonEmptyMarkers) => AbsentOrPair

\* C7 witness: a marker stands at the end of a line (or before whitespace
\* only), the scan went on, and nothing was found.
C7_Witness_MarkerAtEndOfLine ==
    /\ ExtractCalled
    /\ NonEmptyMarkers
    /\ \E p \in Combos : OnlyWhitespaceFollows(p)
    /\ Len(lines_text) = 2
    /\ name_result = Returned(None, None)

(***************************************************************************)
(* Claims about sort_file (checked under SpecSort and SpecMalformed)       *)
(***************************************************************************)
SortReturned == calls >= 1 /\ sort_result.kind = "return"

WordIds == 1..Len(passed_words)

\* The positions (line, place) at which word i stands in the returned lines.
PlacesOf(i) ==
    {pl \in UNION {{<<n, k>> : k \in 1..Len(sort_result.lines[n])} :
                      n \in 1..Len(sort_result.lines)} :
        sort_result.lines[pl[1]][pl[2]] = i}

SameLine(a, b) ==
    \E n \in 1..Len(sort_result.lines) :
        /\ \E k \in 1..Len(sort_result.lines[n]) : sort_result.lines[n][k] = a
        /\ \E k \in 1..Len(sort_result.lines[n]) : sort_result.lines[n][k] = b

\* Twice the centre of the box the caller passed: y_min + y_max, x_min + x_max.
TwiceY(i) == passed_words[i].bbox.y_min + passed_words[i].bbox.y_max
TwiceX(i) == passed_words[i].bbox.x_min + passed_words[i].bbox.x_max

\* round(n / d) by its meaning: the integer nearest to n / d, the even one of
\* the two when n / d lies halfway between them (n >= 0, d > 0).
NearestInteger(n, d) ==
    CHOOSE k \in 0..(n + 1) :
        /\ 2 * n - d <= 2 * k * d
        /\ 2 * k * d <= 2 * n + d
        /\ (2 * k * d = 2 * n - d \/ 2 * k * d = 2 * n + d) => k % 2 = 0

\* The bucket key round(y_avg / y_tol) of word i, with y_avg = TwiceY(i) / 2.
KeyOf(i) == NearestInteger(TwiceY(i), 2 * y_tol)

\* C3: the returned lines hold every input word exactly once and nothing
\* else; no word gives no line, one word gives one line holding it.
C3_EveryWordInExactlyOneLine ==
    SortReturned =>
        /\ Len(words) = Len(passed_words)
        /\ \A i \in WordIds : Cardinality(PlacesOf(i)) = 1
        /\ \A n \in 1..Len(sort_result.lines) :
              \A k \in 1..Len(sort_result.lines[n]) :
                  sort_result.lines[n][k] \in WordIds
        /\ (Len(passed_words) = 0 => sort_result.lines = <<>>)
        /\ (Len(passed_words) = 1 => sort_result.lines = << <<1>> >>)

\* C3 witness: two words with the same box came back, both in one line.
C3_Witness_TwoEqualBoxes ==
    /\ SortReturned
    /\ Len(passed_words) = 2
    /\ passed_words[1] = passed_words[2]
    /\ Len(sort_result.lines) = 1
    /\ Len(sort_result.lines[1]) = 2

\* C4: the lines come in ascending order of bucket key round(y_avg / y_tol),
\* and within a line the x_avg of consecutive words never decreases.
C4_LinesByKeyWordsByX ==
    SortReturned =>
        /\ \A n \in 1..(Len(sort_result.lines) - 1) :
              \A k1 \in 1..Len(sort_result.lines[n]) :
                  \A k2 \in 1..Len(sort_result.lines[n + 1]) :
                      KeyOf(sort_result.lines[n][k1]) <= KeyOf(sort_result.lines[n + 1][k2])
        /\ \A n \in 1..Len(sort_result.lines) :
              \A k \in 1..(Len(sort_result.lines[n]) - 1) :
                  TwiceX(sort_result.lines[n][k]) <= TwiceX(sort_result.lines[n][k + 1])

\* C4 witness: the word of the lower line came first in the input and second
\* in the output.
C4_Witness_LinesReordered ==
    /\ SortReturned
    /\ sort_result.lines = << <<2>>, <<1>> >>
    /\ KeyOf(2) < KeyOf(1)

\* C5: two words are in the same line exactly when their bucket keys
\* round(y_avg / y_tol) are equal, also when their y_avg differ by less than
\* y_tol; so no line is empty and no two lines share a key.
C5_SameLineIffSameKey ==
    SortReturned =>
        /\ \A a \in WordIds : \A b \in WordIds :
              SameLine(a, b) <=> KeyOf(a) = KeyOf(b)
        /\ \A n \in 1..Len(sort_result.lines) : sort_result.lines[n] # <<>>
        /\ \A n \in 1..Len(sort_result.lines) :
              \A m \in 1..Len(sort_result.lines) :
                  n # m => KeyOf(sort_result.lines[n][1]) # KeyOf(sort_result.lines[m][1])

\* C5 witness: two words whose y_avg differ by less than y_tol are in
\* different lines.
C5_Witness_CloseWordsSplit ==
    /\ SortReturned
    /\ Len(passed_words) = 2
    /\ TwiceY(1) - TwiceY(2) < 2 * y_tol
    /\ TwiceY(2) - TwiceY(1) < 2 * y_tol
    /\ ~SameLine(1, 2)

\* C9: within a line, words with equal x_avg stand in their input order.
C9_TiesKeepInputOrder ==
    SortReturned =>
        \A n \in 1..Len(sort_result.lines) :
            \A k1 \in 1..Len(sort_result.lines[n]) :
                \A k2 \in 1..Len(sort_result.lines[n]) :
                    (k1 < k2 /\ TwiceX(sort_result.lines[n][k1]) = TwiceX(sort_result.lines[n][k2]))
                        => sort_result.lines[n][k1] < sort_result.lines[n][k2]

\* C9 witness: a line holds two words with equal x_avg and different boxes.
C9_Witness_TieInOneLine ==
    /\ SortReturned
    /\ Len(passed_words) = 2
    /\ SameLine(1, 2)
    /\ TwiceX(1) = TwiceX(2)
    /\ passed_words[1].bbox # passed_words[2].bbox

\* C10: a call leaves the list, every word's text and the four bbox fields
\* as they were; all it changes in a record is to attach y_avg and x_avg, the
\* centres of the box; a second call on the same words gives the same lines.
C10_CallerFieldsUnchanged ==
    SortReturned =>
        /\ Len(words) = Len(passed_words)
        /\ \A i \in WordIds :
              /\ DOMAIN words[i] = (DOMAIN passed_words[i]) \cup {"y_avg", "x_avg"}
              /\ words[i].text = passed_words[i].text
              /\ words[i].bbox = passed_words[i].bbox
              /\ 2 * words[i].y_avg = TwiceY(i)
              /\ 2 * words[i].x_avg = TwiceX(i)
        /\ (calls >= 2 => sort_result.lines = first_lines)

\* C10 witness: sort_file returned twice on a list of two words in two lines.
C10_Witness_SecondCall ==
    /\ SortReturned
    /\ calls = 2
    /\ Len(passed_words) = 2
    /\ Len(sort_result.lines) = 2

\* What a record may lack.
LacksBoxField(w) == "bbox" \notin DOMAIN w \/ ~(BboxKeys \subseteq DOMAIN w.bbox)
LacksText(w) == "text" \notin DOMAIN w
Malformed(w) == LacksBoxField(w) \/ LacksText(w)

\* The first subscript that fails on a record lacking a box field, in the
\* order in which the fields are read.
ReadOrder == <<"y_min", "y_max", "x_min", "x_max">>
FirstMissingKey(w) ==
    IF "bbox" \notin DOMAIN w THEN "bbox"
    ELSE ReadOrder[CHOOSE k \in 1..4 :
                      /\ ReadOrder[k] \notin DOMAIN w.bbox
                      /\ \A j \in 1..(k - 1) : ReadOrder[j] \in DOMAIN w.bbox]

MainEnded == output.kind # "pending"

\* The first page's word records, for a JSON object with a first page.
FirstPageWords(d) ==
    IF "words" \in DOMAIN d.data.pages[1] THEN d.data.pages[1].words ELSE <<>>

\* The document cannot be loaded and processed: there is no file, it is not
\* JSON, it is not an object with a non-empty pages list, or a word record
\* of its first page lacks its text or its bbox.
FailsToProcess(d) ==
    \/ d.kind # "json_object"
    \/ "pages" \notin DOMAIN d.data
    \/ d.data.pages = <<>>
    \/ \E i \in 1..Len(FirstPageWords(d)) : Malformed(FirstPageWords(d)[i])

\* C8: main ends in one of three ways and never with an uncaught exception:
\* it prints the name found, or the not-found message for a document that
\* loads without a name, or an error message for every document that fails
\* to load or process.
C8_MainNeverCrashes ==
    MainEnded =>
        /\ output.kind \in {"printed_name", "printed_not_found", "printed_error"}
        /\ FailsToProcess(doc) <=> output.kind = "printed_error"
        /\ output.kind = "printed_name" =>
              (output.first # None /\ output.last # None)

====
